---- MODULE Spec2Model ----
(***************************************************************************)
(* Spaced-repetition scheduler of master-english-srs: the interval ladder, *)
(* the local-day clock, the due-set query, replenishment                   *)
(* (addPagesToLearning), the hourly RunDailyCron sweep with its per-user   *)
(* claim, the inactivity sweeps, review submission and page skipping.      *)
(* Time is counted in whole hours since an arbitrary epoch; the store is   *)
(* the users / user_progress / page_references / progress_history tables.  *)
(***************************************************************************)
EXTENDS Integers, Sequences, FiniteSets, TLC

\* ------------------------------------------------------------------ bounds
\* hour at which the modelled run starts (18:00 UTC of day 100)
NowStart == 2418
\* hours the clock advances per Tick
ClockStep == 3
\* number of Ticks of a run
MaxTicks == 1
\* number of review submissions of a run
MaxReviews == 1
\* number of RunDailyCron invocations per replica
MaxSweeps == 1
\* number of PrepareMaterials / SkipPage commands of a run
MaxCommands == 1
\* number of operations (ticks, reviews, commands, sweeps) of a run
MaxOps == 4
\* largest stored max_pages_per_day
MaxCapacity == 12

\* ------------------------------------------------------- program constants
HoursPerDay == 24
MoscowOffset == 3
DefaultMaxPages == 2
NoNumber == 999999
PauseDays == 7
ResetDays == 30

Null == -1

Learners == {1, 2}
Replicas == {1, 2}

\* ------------------------------------------------------------- time (utils)
TimeZones == {"UTC", "Europe/Moscow", "", "Mars/Olympus"}

\* time.LoadLocation: "" and "UTC" load UTC, an unknown name is an error
LoadLocationOk(tz) == tz \in {"UTC", "", "Europe/Moscow"}

LoadLocation(tz) == IF tz = "Europe/Moscow" THEN MoscowOffset ELSE 0

\* utils.StartOfDay on a UTC time
StartOfDay(t) == (t \div HoursPerDay) * HoursPerDay

\* utils.StartOfDayInTimezone: midnight of t's calendar day in the zone, as
\* an absolute instant; defined only where LoadLocationOk(tz)
StartOfDayInTimezone(t, tz) ==
  ((t + LoadLocation(tz)) \div HoursPerDay) * HoursPerDay - LoadLocation(tz)

\* time.Time.AddDate(0, 0, d) in a zone without DST
AddDate(t, d) == t + d * HoursPerDay

\* the "timezone := UTC; if user.Timezone != nil && != ''" idiom of the service
UserTimezone(tz) == IF tz # "" THEN tz ELSE "UTC"

\* the start-of-today-with-UTC-fallback block shared by the srs date helpers
StartOfTodayOrUTC(t, tz) ==
  IF tz # "" /\ LoadLocationOk(tz) THEN StartOfDayInTimezone(t, tz)
  ELSE StartOfDay(t)

\* ------------------------------------------------------------ srs algorithm
defaultIntervals == <<1, 3, 7, 14, 30, 90, 180>>

Grades == {"forgot", "hard", "normal", "easy"}

\* slices.Index: 0-based position, -1 when absent
SliceIndex(s, x) ==
  IF \E i \in 1..Len(s) : s[i] = x
  THEN (CHOOSE i \in 1..Len(s) : s[i] = x /\ \A j \in 1..(i-1) : s[j] # x) - 1
  ELSE -1

\* the interval counted from the present hour, not from the start of the day
calculateIntervalFromNow(interval, tz, t) ==
  [next |-> AddDate(t, interval), interval |-> interval]

calculateInterval(interval, tz, t) ==
  [next |-> AddDate(StartOfTodayOrUTC(t, tz), interval), interval |-> interval]

\* the ladder with forgot handled like hard: one step down
CalculateNextReviewDateForgotAsHard(currentIntervalDays, success, tz, t) ==
  LET interval == SliceIndex(defaultIntervals, currentIntervalDays) IN
  IF interval = -1 THEN calculateInterval(defaultIntervals[1], tz, t)
  ELSE IF success \in {"easy", "normal"} THEN
       IF interval = Len(defaultIntervals) - 1
       THEN calculateInterval(defaultIntervals[interval + 1], tz, t)
       ELSE calculateInterval(defaultIntervals[interval + 2], tz, t)
  ELSE IF interval = 0
       THEN calculateInterval(defaultIntervals[interval + 1], tz, t)
       ELSE calculateInterval(defaultIntervals[interval], tz, t)

\* the ladder with hard keeping the current step
CalculateNextReviewDateHardStays(currentIntervalDays, success, tz, t) ==
  LET interval == SliceIndex(defaultIntervals, currentIntervalDays) IN
  IF interval = -1 THEN calculateInterval(defaultIntervals[1], tz, t)
  ELSE IF success = "forgot" THEN calculateInterval(defaultIntervals[1], tz, t)
  ELSE IF success \in {"easy", "normal"} THEN
       IF interval = Len(defaultIntervals) - 1
       THEN calculateInterval(defaultIntervals[interval + 1], tz, t)
       ELSE calculateInterval(defaultIntervals[interval + 2], tz, t)
  ELSE calculateInterval(defaultIntervals[interval + 1], tz, t)

\* the ladder with easy doubling the interval instead of taking the next step
CalculateNextReviewDateDoubling(currentIntervalDays, success, tz, t) ==
  LET interval == SliceIndex(defaultIntervals, currentIntervalDays) IN
  IF interval = -1 THEN calculateInterval(defaultIntervals[1], tz, t)
  ELSE IF success = "forgot" THEN calculateInterval(defaultIntervals[1], tz, t)
  ELSE IF success = "easy" THEN calculateInterval(currentIntervalDays * 2, tz, t)
  ELSE IF success = "normal" THEN
       IF interval = Len(defaultIntervals) - 1
       THEN calculateInterval(defaultIntervals[interval + 1], tz, t)
       ELSE calculateInterval(defaultIntervals[interval + 2], tz, t)
  ELSE IF interval = 0
       THEN calculateInterval(defaultIntervals[interval + 1], tz, t)
       ELSE calculateInterval(defaultIntervals[interval], tz, t)

CalculateNextReviewDate(currentIntervalDays, success, tz, t) ==
  LET interval == SliceIndex(defaultIntervals, currentIntervalDays) IN
  IF interval = -1 THEN calculateInterval(defaultIntervals[1], tz, t)
  ELSE IF success = "forgot" THEN calculateInterval(defaultIntervals[1], tz, t)
  ELSE IF success \in {"easy", "normal"} THEN
       IF interval = Len(defaultIntervals) - 1
       THEN calculateInterval(defaultIntervals[interval + 1], tz, t)
       ELSE calculateInterval(defaultIntervals[interval + 2], tz, t)
  ELSE IF success = "hard" THEN
       IF interval = 0
       THEN calculateInterval(defaultIntervals[interval + 1], tz, t)
       ELSE calculateInterval(defaultIntervals[interval], tz, t)
  ELSE calculateInterval(defaultIntervals[interval + 1] + 1, tz, t)

GetInitialReviewDate(tz, t) ==
  [next |-> StartOfTodayOrUTC(t, tz), interval |-> 0]

GetNextDayReviewDate(tz, t) ==
  [next |-> AddDate(StartOfTodayOrUTC(t, tz), 1), interval |-> 1]

\* ReadingMode rescheduled for the start of today instead of tomorrow
GetNextDayReadingModeToday(tz, t) ==
  [next |-> StartOfTodayOrUTC(t, tz), interval |-> 0]

GetNextDayReadingMode(tz, t) ==
  [next |-> AddDate(StartOfTodayOrUTC(t, tz), 1), interval |-> 0]

ConvertGradeToStatus(grade) ==
  IF grade > 80 THEN "easy"
  ELSE IF grade > 60 THEN "normal"
  ELSE IF grade >= 40 THEN "hard"
  ELSE "forgot"

\* the mapping with the half rounded up
CalculatePagesToAddUp(maxPagesPerDay) ==
  IF maxPagesPerDay \in {0, 1, 2} THEN {1}
  ELSE IF maxPagesPerDay = 3 THEN {1, 2}
  ELSE {(maxPagesPerDay + 1) \div 2}

\* the outcomes rand.Float32() < 0.6 can produce for maxPagesPerDay = 3
CalculatePagesToAdd(maxPagesPerDay) ==
  IF maxPagesPerDay \in {0, 1, 2} THEN {1}
  ELSE IF maxPagesPerDay = 3 THEN {1, 2}
  ELSE IF maxPagesPerDay = 4 THEN {2}
  ELSE {maxPagesPerDay \div 2}

\* ------------------------------------------------------ catalog (OneNote)
\* Page titles are sequences of characters.
Digits == <<"0", "1", "2", "3", "4", "5", "6", "7", "8", "9">>

IsDigit(c) == \E i \in 1..Len(Digits) : Digits[i] = c

DigitValue(c) == (CHOOSE i \in 1..Len(Digits) : Digits[i] = c) - 1

RECURSIVE TrimLeft(_)
TrimLeft(s) == IF s # <<>> /\ Head(s) = " " THEN TrimLeft(Tail(s)) ELSE s

RECURSIVE TrimRight(_)
TrimRight(s) ==
  IF s # <<>> /\ s[Len(s)] = " " THEN TrimRight(SubSeq(s, 1, Len(s) - 1)) ELSE s

\* strings.TrimSpace
TrimSpace(s) == TrimRight(TrimLeft(s))

\* regexp `^\d+` FindString: the longest leading run of digits
RECURSIVE LeadingDigits(_)
LeadingDigits(s) ==
  IF s # <<>> /\ IsDigit(Head(s)) THEN <<Head(s)>> \o LeadingDigits(Tail(s))
  ELSE <<>>

\* strconv.Atoi on a string of digits
RECURSIVE Atoi(_)
Atoi(s) ==
  IF s = <<>> THEN 0
  ELSE 10 * Atoi(SubSeq(s, 1, Len(s) - 1)) + DigitValue(s[Len(s)])

\* strings.Contains(title, "*")
ContainsStar(s) == \E i \in 1..Len(s) : s[i] = "*"

hasPageNumber(title) ==
  LET t == TrimSpace(title) IN
  IF t = <<>> THEN FALSE ELSE LeadingDigits(t) # <<>>

extractPageNumber(title) ==
  LET t == TrimSpace(title) IN
  IF t = <<>> THEN 0
  ELSE IF LeadingDigits(t) = <<>> THEN NoNumber
  ELSE Atoi(LeadingDigits(t))

\* the pages of a learner's OneNote section (onenote.Page ID -> Title)
Pages == {"p1", "p2", "p3", "p4", "p5"}

PageTitle(p) ==
  CASE p = "p1" -> <<"1", " ", "A">>
    [] p = "p2" -> <<"1", "2", " ", "B">>
    [] p = "p3" -> <<" ", "1", "2", "C">>
    [] p = "p4" -> <<"2", "*">>
    [] p = "p5" -> <<"B", " ", "3">>

\* the title filter of syncPagesInternal / addPagesToLearning / GetDuePagesToday
TitleOk(p) == ~ContainsStar(PageTitle(p)) /\ hasPageNumber(PageTitle(p))

\* all orders slices.SortFunc may leave a set of pages in: ascending by
\* extractPageNumber, pages with equal numbers in any order (the sort is
\* not stable and the API order is not fixed)
SortedByNumber(S) ==
  {q \in [1..Cardinality(S) -> S] :
     /\ \A i, j \in 1..Cardinality(S) : i # j => q[i] # q[j]
     /\ \A i, j \in 1..Cardinality(S) :
          i < j => extractPageNumber(PageTitle(q[i])) <= extractPageNumber(PageTitle(q[j]))}

\* the slice cut one element late
TruncateOneMore(s, n) == IF Len(s) > n + 1 THEN SubSeq(s, 1, n + 1) ELSE s

\* s[:n] when len(s) > n
Truncate(s, n) == IF Len(s) > n THEN SubSeq(s, 1, n) ELSE s

\* keep the elements of s that satisfy membership in S, in order
RECURSIVE FilterSeq(_, _)
FilterSeq(s, S) ==
  IF s = <<>> THEN <<>>
  ELSE IF Head(s) \in S THEN <<Head(s)>> \o FilterSeq(Tail(s), S)
  ELSE FilterSeq(Tail(s), S)

SeqRange(s) == {s[i] : i \in 1..Len(s)}

\* ------------------------------------------------------------------- state
VARIABLES
  now,        \* the wall clock (time.Now), in hours
  users,      \* table users: one row per learner
  progress,   \* table user_progress: <<user_id, page_id>> -> row
  pageRefs,   \* table page_references: set of <<page_id, user_id>>
  history,    \* table progress_history, in insertion order
  cron,       \* per replica: the position of its RunDailyCron invocation
  review,     \* per learner: the UpdateReviewProgress call in flight
  prep,       \* per learner: the PrepareMaterials call in flight
  budget,     \* what is left of the run: ticks, reviews, commands, sweeps
  storeFaults,\* whether statements of the store may fail in this run
  attempts,   \* per learner: the TryProcessDailyCronForUser calls made
  created,    \* per learner: the record sets the sweeps' replenishment created
  shown,      \* per learner: the last answer of GetDuePagesToday
  skipped,    \* the <<learner, page>> pairs SkipPage was called for
  doubled,    \* the pairs a CreateProgress succeeded for while a row existed
  pagesDrawn  \* per learner: what CalculatePagesToAdd last returned

vars == <<now, users, progress, pageRefs, history, cron, review, prep,
          budget, storeFaults, attempts, created, shown, skipped, doubled,
          pagesDrawn>>

store == <<users, progress, pageRefs, history>>

\* the users in the order GetAllUsersWithReminders returns them
UserList == <<1, 2>>

Row(interval, nextReview, lastReview, reviewedToday, passed) ==
  [interval |-> interval, nextReview |-> nextReview, lastReview |-> lastReview,
   reviewedToday |-> reviewedToday, passed |-> passed, repetitionCount |-> 0]

HasProgress(l, p) == <<l, p>> \in DOMAIN progress

\* user.MaxPagesPerDay with the service's default
MaxPagesOf(u) == IF u.maxPagesPerDay = Null THEN DefaultMaxPages ELSE u.maxPagesPerDay

\* --------------------------------------------------------- repository reads
\* the due query with the boundary itself left out
RepoGetDuePagesTodayStrict(l, cutoff) ==
  {p \in Pages : /\ HasProgress(l, p)
                 /\ progress[<<l, p>>].nextReview < cutoff
                 /\ ~progress[<<l, p>>].reviewedToday}

\* SELECT ... WHERE user_id = $1 AND next_review_date <= $2 AND reviewed_today = FALSE
RepoGetDuePagesToday(l, cutoff) ==
  {p \in Pages : /\ HasProgress(l, p)
                 /\ progress[<<l, p>>].nextReview <= cutoff
                 /\ ~progress[<<l, p>>].reviewedToday}

GetPageIDsNotInProgress(l, pageIDs) ==
  FilterSeq(pageIDs, {p \in Pages : ~HasProgress(l, p)})

\* endOfDayUTC as addPagesToLearning and checkAndPauseInactiveUsers compute it
EndOfDayUTC(u, t) == AddDate(StartOfTodayOrUTC(t, UserTimezone(u.timezone)), 1)

\* the query without its condition on last_activity_date
GetUsersWithoutActivityAfterAny(afterTime, excludePaused) ==
  FilterSeq(UserList, {l \in Learners : excludePaused => ~users[l].isPaused})

\* WHERE last_activity_date IS NULL OR last_activity_date < $1 [AND is_paused = FALSE]
GetUsersWithoutActivityAfter(afterTime, excludePaused) ==
  FilterSeq(UserList,
    {l \in Learners : /\ (users[l].lastActivity = Null \/ users[l].lastActivity < afterTime)
                      /\ (excludePaused => ~users[l].isPaused)})

\* -------------------------------------------------------- repository writes
\* INSERT INTO user_progress for every page of the list, inside one transaction
CreateAll(l, pageIDs, row) ==
  [k \in DOMAIN progress \cup {<<l, pageIDs[i]>> : i \in 1..Len(pageIDs)} |->
     IF k \in DOMAIN progress THEN progress[k] ELSE row]

\* UPDATE user_progress SET reviewed_today = FALSE WHERE user_id = ?
ResetReviewedTodayFlag(l) ==
  [k \in DOMAIN progress |->
     IF k[1] = l THEN [progress[k] EXCEPT !.reviewedToday = FALSE] ELSE progress[k]]

\* the reset without its passed = FALSE condition
ResetIntervalForPagesDueInMonthAll(l, tomorrow, monthFromNow) ==
  [k \in DOMAIN progress |->
     IF k[1] = l /\ progress[k].nextReview <= monthFromNow
     THEN [progress[k] EXCEPT !.interval = 1, !.nextReview = tomorrow]
     ELSE progress[k]]

\* the reset with tomorrow taken in the learner's own zone
ResetIntervalForPagesDueInMonthLocal(l, tomorrow, monthFromNow) ==
  [k \in DOMAIN progress |->
     IF k[1] = l /\ progress[k].nextReview <= monthFromNow /\ ~progress[k].passed
     THEN [progress[k] EXCEPT !.interval = 1,
             !.nextReview = tomorrow - LoadLocation(users[l].timezone)]
     ELSE progress[k]]

\* UPDATE user_progress SET interval_days = 1, next_review_date = tomorrow
\* WHERE user_id = ? AND next_review_date <= monthFromNow AND passed = FALSE
ResetIntervalForPagesDueInMonth(l, tomorrow, monthFromNow) ==
  [k \in DOMAIN progress |->
     IF k[1] = l /\ progress[k].nextReview <= monthFromNow /\ ~progress[k].passed
     THEN [progress[k] EXCEPT !.interval = 1, !.nextReview = tomorrow]
     ELSE progress[k]]

\* DELETE FROM user_progress WHERE user_id = ? AND page_id = ?
DeleteProgress(l, p) == [k \in DOMAIN progress \ {<<l, p>>} |-> progress[k]]

\* progress_history rows reference user_progress ON DELETE CASCADE
RECURSIVE CascadeHistory(_, _, _)
CascadeHistory(h, l, p) ==
  IF h = <<>> THEN <<>>
  ELSE IF Head(h).user = l /\ Head(h).page = p THEN CascadeHistory(Tail(h), l, p)
  ELSE <<Head(h)>> \o CascadeHistory(Tail(h), l, p)

\* the claim with a boundary that lets the instant of local midnight in twice
ClaimConditionInclusive(lastCron, startOfTodayUTC) ==
  lastCron = Null \/ lastCron <= startOfTodayUTC

\* the update without its condition on last_cron_processed_at
ClaimConditionAlways(lastCron, startOfTodayUTC) ==
  lastCron = Null \/ lastCron >= 0

\* the update without the IS NULL alternative of its condition
ClaimConditionNotNull(lastCron, startOfTodayUTC) ==
  lastCron # Null /\ lastCron < startOfTodayUTC

\* UPDATE users SET last_cron_processed_at = now
\* WHERE telegram_id = ? AND (last_cron_processed_at IS NULL OR last_cron_processed_at < ?)
ClaimCondition(lastCron, startOfTodayUTC) ==
  lastCron = Null \/ lastCron < startOfTodayUTC

\* ------------------------------------------------------ addPagesToLearning
\* addPagesToLearning with the capacity check off by one: a due set of
\* exactly the daily capacity does not stop the replenishment
AddPlansStrict(l) ==
  LET u == users[l]
      due == RepoGetDuePagesToday(l, EndOfDayUTC(u, now))
      available == {p \in Pages : TitleOk(p)}
  IN
  IF ~u.configured THEN {[res |-> "err", plan |-> <<>>]}
  ELSE IF u.isPaused THEN {[res |-> "nil", plan |-> <<>>]}
  ELSE IF Cardinality(due) > MaxPagesOf(u) THEN {[res |-> "nil", plan |-> <<>>]}
  ELSE {[res |-> "err", plan |-> <<>>]} \cup
       {[res |-> "tx", plan |-> Truncate(GetPageIDsNotInProgress(l, q), n)] :
          q \in SortedByNumber(available), n \in CalculatePagesToAdd(MaxPagesOf(u))}

\* The reads of addPagesToLearning up to the transaction: the outcomes
\* [res, plan] it can reach for learner l at the current store and clock.
\* res = "err": returns an error; "nil": returns nil without a transaction;
\* "tx": goes on to RunInTx with the page ids of plan.
AddPlans(l) ==
  LET u == users[l]
      due == RepoGetDuePagesToday(l, EndOfDayUTC(u, now))
      available == {p \in Pages : TitleOk(p)}
  IN
  IF ~u.configured THEN {[res |-> "err", plan |-> <<>>]}
  ELSE IF u.isPaused THEN {[res |-> "nil", plan |-> <<>>]}
  ELSE LET plans ==
         {[res |-> "err", plan |-> <<>>]} \cup
         {[res |-> "tx", plan |-> Truncate(GetPageIDsNotInProgress(l, q), n)] :
            q \in SortedByNumber(available), n \in CalculatePagesToAdd(MaxPagesOf(u))}
       IN
       \* a failed due-pages query is logged and the count check is skipped
       (IF storeFaults THEN plans ELSE {}) \cup
       (IF Cardinality(due) >= MaxPagesOf(u) THEN {[res |-> "nil", plan |-> <<>>]}
        ELSE plans)

\* whether a statement of the store fails: only in runs with storeFaults
Faulty == IF storeFaults THEN BOOLEAN ELSE {FALSE}

\* the row addPagesToLearning builds for a new page
NewRow(l) ==
  Row(0, GetInitialReviewDate(UserTimezone(users[l].timezone), now).next,
      now, FALSE, FALSE)

\* the failures of a table without its primary key
TxFailuresNoKey(l, plan) ==
  {0} \cup (IF storeFaults THEN 1..(Len(plan) + 1) ELSE {})

\* Where the transaction of addPagesToLearning can fail: 0 is no failure,
\* i in 1..Len(plan) is CreateProgress failing for plan[i], Len(plan) + 1 is
\* Commit failing. CreateProgress fails on an existing (user_id, page_id).
TxFailures(l, plan) ==
  LET dup == {i \in 1..Len(plan) : HasProgress(l, plan[i])}
      firstDup == CHOOSE i \in dup : \A j \in dup : i <= j
  IN
  IF dup # {} THEN {firstDup} \cup (IF storeFaults THEN 1..firstDup ELSE {})
  ELSE {0} \cup (IF storeFaults THEN 1..(Len(plan) + 1) ELSE {})

\* the pairs of a transaction of addPagesToLearning with failure f whose
\* CreateProgress succeeded although the pair had a row
Doubled(l, plan, f) ==
  IF f = 0 THEN {<<l, plan[i]>> : i \in {j \in 1..Len(plan) : HasProgress(l, plan[j])}}
  ELSE {}

\* RunInTx without its Rollback: the rows inserted before the failure stay
RunInTxNoRollback(l, plan, f) ==
  IF f = 0 THEN CreateAll(l, plan, NewRow(l))
  ELSE IF f = Len(plan) + 1 THEN progress
  ELSE CreateAll(l, SubSeq(plan, 1, f - 1), NewRow(l))

\* RunInTx of addPagesToLearning with the failure f: the table after Commit,
\* or as it was at Begin after Rollback
RunInTx(l, plan, f) ==
  IF f = 0 THEN CreateAll(l, plan, NewRow(l)) ELSE progress

\* syncPagesInternal on success: UpsertPageReference for every page that
\* passes the title filter
SyncedRefs(l) == pageRefs \cup {<<p, l>> : p \in {q \in Pages : TitleOk(q)}}

SyncOutcomes == {"ok", "auth", "err"}

\* ------------------------------------------------------------------ clock
Tick ==
  /\ budget.ticks > 0 /\ budget.ops > 0
  /\ budget' = [budget EXCEPT !.ticks = @ - 1, !.ops = @ - 1]
  /\ now' = now + ClockStep
  /\ UNCHANGED <<users, progress, pageRefs, history, cron, review, prep,
                 storeFaults, shown, attempts, created, skipped, doubled, pagesDrawn>>

\* ------------------------------------------------------ UpdateReviewProgress
Scores == {0, 39, 40, 60, 61, 80, 81, 100}

IdleReview == [pc |-> "idle", page |-> "", grade |-> 0, interval |-> 0, wasPaused |-> FALSE]

\* GetProgress and GetUser; a missing row ends the call with an error
ReviewBegin(l, p, g) ==
  /\ review[l].pc = "idle"
  /\ budget.reviews > 0 /\ budget.ops > 0
  /\ budget' = [budget EXCEPT !.reviews = @ - 1, !.ops = @ - 1]
  /\ review' = [review EXCEPT ![l] =
       IF HasProgress(l, p)
       THEN [pc |-> "write", page |-> p, grade |-> g,
             interval |-> progress[<<l, p>>].interval,
             wasPaused |-> users[l].isPaused]
       ELSE [IdleReview EXCEPT !.pc = "notfound"]]
  /\ UNCHANGED <<now, users, progress, pageRefs, history, cron, prep,
                 storeFaults, shown, attempts, created, skipped, doubled, pagesDrawn>>

\* an error return that has recorded the learner's activity
ReviewFailTouch(l) ==
  /\ review[l].pc = "notfound"
  /\ review' = [review EXCEPT ![l] = IdleReview]
  /\ users' = [users EXCEPT ![l].lastActivity = now]
  /\ UNCHANGED <<now, progress, pageRefs, history, cron, prep,
                 budget, storeFaults, shown, attempts, created, skipped, doubled, pagesDrawn>>

\* the error return of UpdateReviewProgress
ReviewFail(l) ==
  /\ review[l].pc = "notfound"
  /\ review' = [review EXCEPT ![l] = IdleReview]
  /\ UNCHANGED <<now, users, progress, pageRefs, history, cron, prep,
                 budget, storeFaults, shown, attempts, created, skipped, doubled, pagesDrawn>>

\* the (nextReview, newInterval) computation of UpdateReviewProgress
NextReview(interval, grade, tz, t) ==
  LET status == ConvertGradeToStatus(grade) IN
  IF interval = 0
  THEN IF status = "normal" \/ status = "easy"
       THEN GetNextDayReviewDate(tz, t)
       ELSE GetNextDayReadingMode(tz, t)
  ELSE CalculateNextReviewDate(interval, status, tz, t)

\* passed set on easy only
ReviewPassedEasyOnly(interval, grade) ==
  interval = 180 /\ ConvertGradeToStatus(grade) = "easy"

ReviewPassed(interval, grade) ==
  interval = 180 /\ ConvertGradeToStatus(grade) \in {"easy", "normal"}

\* an activity update that writes nothing
UpdateUserActivityStale(u, activityDate) == u

\* UPDATE users SET last_activity_date = ? WHERE telegram_id = ?
UpdateUserActivity(u, activityDate) == [u EXCEPT !.lastActivity = activityDate]

\* a resume that leaves the flag as it is
resumeUserOnActivityKeep(u) == u

\* SetUserPaused(userID, false)
resumeUserOnActivity(u) == [u EXCEPT !.isPaused = FALSE]

\* UpdateProgress, AddProgressHistory, UpdateUserActivity, resumeUserOnActivity
ReviewCommit(l) ==
  LET rv == review[l]
      key == <<l, rv.page>>
      nr == NextReview(rv.interval, rv.grade, UserTimezone(users[l].timezone), now)
  IN
  /\ rv.pc = "write"
  /\ progress' =
       IF key \in DOMAIN progress
       THEN [progress EXCEPT ![key] =
               [@ EXCEPT !.lastReview = now, !.nextReview = nr.next,
                         !.interval = nr.interval, !.reviewedToday = TRUE,
                         !.passed = ReviewPassed(rv.interval, rv.grade)]]
       ELSE progress
  /\ history' =
       IF key \in DOMAIN progress
       THEN Append(history, [user |-> l, page |-> rv.page, date |-> now,
                             score |-> rv.grade,
                             mode |-> IF rv.interval = 0 THEN "reading" ELSE "standard"])
       ELSE history
  /\ users' = [users EXCEPT ![l] =
       IF rv.wasPaused THEN resumeUserOnActivity(UpdateUserActivity(@, now))
       ELSE UpdateUserActivity(@, now)]
  /\ review' = [review EXCEPT ![l] = IdleReview]
  /\ UNCHANGED <<now, pageRefs, cron, prep, budget, storeFaults, shown, attempts, created, skipped, doubled, pagesDrawn>>

\* -------------------------------------------------------- GetDuePagesToday
NotShown == [res |-> "none", list |-> <<>>]

\* the comparator of the sort of GetDuePagesToday with the next review date
\* left out
SortedDueByNumber(l, S) ==
  {q \in [1..Cardinality(S) -> S] :
     /\ \A i, j \in 1..Cardinality(S) : i # j => q[i] # q[j]
     /\ \A i, j \in 1..Cardinality(S) :
          i < j => extractPageNumber(PageTitle(q[i])) <= extractPageNumber(PageTitle(q[j]))}

\* all orders slices.SortFunc may leave the due pages S of learner l in:
\* ascending by extractPageNumber, then by NextReviewDate; pages equal in
\* both in any order
SortedDue(l, S) ==
  {q \in [1..Cardinality(S) -> S] :
     /\ \A i, j \in 1..Cardinality(S) : i # j => q[i] # q[j]
     /\ \A i, j \in 1..Cardinality(S) :
          i < j =>
            LET numA == extractPageNumber(PageTitle(q[i]))
                numB == extractPageNumber(PageTitle(q[j]))
            IN \/ numA < numB
               \/ /\ numA = numB
                  /\ progress[<<l, q[i]>>].nextReview <= progress[<<l, q[j]>>].nextReview}

\* the answers GetDuePagesToday of the service can give learner l at the
\* current store and clock: an error, or the list of the due pages
GetDuePagesToday(l) ==
  LET u == users[l]
      tz == UserTimezone(u.timezone)
      progressList == RepoGetDuePagesToday(l, AddDate(StartOfDayInTimezone(now, tz), 1))
  IN
  IF ~u.configured \/ ~LoadLocationOk(tz) THEN {[res |-> "err", list |-> <<>>]}
  ELSE IF progressList = {} THEN {[res |-> "ok", list |-> <<>>]}
  ELSE {[res |-> "err", list |-> <<>>]} \cup
       {[res |-> "ok", list |-> q] :
          q \in SortedDue(l, {p \in progressList : TitleOk(p)})}

\* the handler that lists the pages to review today
ShowDue(l) ==
  /\ budget.commands > 0 /\ budget.ops > 0
  /\ budget' = [budget EXCEPT !.commands = @ - 1, !.ops = @ - 1]
  /\ \E out \in GetDuePagesToday(l) : shown' = [shown EXCEPT ![l] = out]
  /\ UNCHANGED <<now, users, progress, pageRefs, history, cron, review, prep,
                 storeFaults, attempts, created, skipped, doubled, pagesDrawn>>

\* ---------------------------------------------------------------- SkipPage
SkipPage(l, p) ==
  /\ budget.commands > 0 /\ budget.ops > 0
  /\ budget' = [budget EXCEPT !.commands = @ - 1, !.ops = @ - 1]
  /\ progress' = DeleteProgress(l, p)
  /\ history' = CascadeHistory(history, l, p)
  /\ skipped' = skipped \cup {<<l, p>>}
  /\ UNCHANGED <<now, users, pageRefs, cron, review, prep, storeFaults, shown, attempts, created, doubled, pagesDrawn>>

\* -------------------------------------------------------- PrepareMaterials
IdlePrep == [pc |-> "idle", plan |-> <<>>]

\* GetUser, the OneNoteConfig check and syncPagesInternal
PrepSync(l) ==
  /\ prep[l].pc = "idle"
  /\ budget.commands > 0 /\ budget.ops > 0
  /\ budget' = [budget EXCEPT !.commands = @ - 1, !.ops = @ - 1]
  /\ \E out \in SyncOutcomes :
       IF ~users[l].configured \/ out = "auth"
       THEN UNCHANGED <<pageRefs, prep>>
       ELSE /\ pageRefs' = IF out = "ok" THEN SyncedRefs(l) ELSE pageRefs
            /\ prep' = [prep EXCEPT ![l] = [pc |-> "add", plan |-> <<>>]]
  /\ UNCHANGED <<now, users, progress, history, cron, review, storeFaults, shown, attempts, created, skipped, doubled, pagesDrawn>>

PrepAdd(l) ==
  /\ prep[l].pc = "add"
  /\ \E a \in AddPlans(l) :
       prep' = [prep EXCEPT ![l] =
                  IF a.res = "tx" THEN [pc |-> "tx", plan |-> a.plan] ELSE IdlePrep]
  /\ UNCHANGED <<now, users, progress, pageRefs, history, cron, review,
                 budget, storeFaults, shown, attempts, created, skipped, doubled, pagesDrawn>>

PrepTx(l) ==
  /\ prep[l].pc = "tx"
  /\ \E f \in TxFailures(l, prep[l].plan) :
       /\ progress' = RunInTx(l, prep[l].plan, f)
       /\ doubled' = doubled \cup Doubled(l, prep[l].plan, f)
  /\ prep' = [prep EXCEPT ![l] = IdlePrep]
  /\ UNCHANGED <<now, users, pageRefs, history, cron, review,
                 budget, storeFaults, shown, attempts, created, skipped, pagesDrawn>>

\* ------------------------------------------------------------ RunDailyCron
IdleCron == [pc |-> "idle", idx |-> 0, paused |-> {}, day |-> 0, steps |-> <<>>,
             plan |-> <<>>, queue |-> <<>>, today |-> 0, failed |-> {}]

\* the learner the loop of RunDailyCron is at
CronUser(r) == UserList[cron[r].idx]

\* `break` in the place of `continue`: the loop is left with the first
\* learner it is done with
NextUserBreak(c) == [c EXCEPT !.pc = "pause", !.idx = 0, !.plan = <<>>]

\* `continue` / the end of the loop body: on to the next user, or on to
\* checkAndPauseInactiveUsers after the last one
NextUser(c) ==
  IF c.idx < Len(UserList)
  THEN [c EXCEPT !.pc = "claim", !.idx = c.idx + 1, !.plan = <<>>]
  ELSE [c EXCEPT !.pc = "pause", !.idx = 0, !.plan = <<>>]

\* GetAllUsersWithReminders: the loop works on this snapshot of the users
CronStart(r) ==
  /\ cron[r].pc = "idle"
  /\ budget.sweeps > 0 /\ budget.ops > 0
  /\ budget' = [budget EXCEPT !.sweeps = @ - 1, !.ops = @ - 1]
  /\ cron' = [cron EXCEPT ![r] =
       [IdleCron EXCEPT !.pc = "claim", !.idx = 1,
                        !.paused = {l \in Learners : users[l].isPaused}]]
  /\ UNCHANGED <<now, users, progress, pageRefs, history, review, prep,
                 storeFaults, shown, attempts, created, skipped, doubled, pagesDrawn>>

\* the head of the loop body: the OneNoteConfig, IsPaused and timezone
\* checks, then TryProcessDailyCronForUser
CronClaim(r) ==
  LET l == CronUser(r)
      tz == UserTimezone(users[l].timezone)
      startOfTodayUTC == StartOfDayInTimezone(now, tz)
  IN
  /\ cron[r].pc = "claim"
  /\ \E fail \in Faulty :
     IF ~users[l].configured \/ l \in cron[r].paused \/ ~LoadLocationOk(tz)
     THEN /\ cron' = [cron EXCEPT ![r] = NextUser(@)]
          /\ UNCHANGED <<users, attempts>>
     ELSE IF fail
     THEN /\ cron' = [cron EXCEPT ![r] =
               NextUser([@ EXCEPT !.failed = @ \cup {<<l, "claim">>}])]
          /\ UNCHANGED <<users, attempts>>
     ELSE IF ClaimCondition(users[l].lastCron, startOfTodayUTC)
     THEN /\ users' = [users EXCEPT ![l].lastCron = now]
          /\ attempts' = [attempts EXCEPT ![l] =
               Append(@, [day |-> startOfTodayUTC, processed |-> TRUE])]
          /\ cron' = [cron EXCEPT ![r] =
               [@ EXCEPT !.pc = "sync", !.day = startOfTodayUTC, !.steps = <<>>]]
     ELSE /\ attempts' = [attempts EXCEPT ![l] =
               Append(@, [day |-> startOfTodayUTC, processed |-> FALSE])]
          /\ cron' = [cron EXCEPT ![r] = NextUser(@)]
          /\ UNCHANGED users
  /\ UNCHANGED <<now, progress, pageRefs, history, review, prep,
                 budget, storeFaults, shown, created, skipped, doubled, pagesDrawn>>

\* a sync that gives the claim back when authorization is required
CronSyncRelease(r) ==
  /\ cron[r].pc = "sync"
  /\ \E out \in SyncOutcomes :
       /\ pageRefs' = IF out = "ok" THEN SyncedRefs(CronUser(r)) ELSE pageRefs
       /\ users' = IF out = "auth" THEN [users EXCEPT ![CronUser(r)].lastCron = Null]
                   ELSE users
       /\ cron' = [cron EXCEPT ![r] =
            LET c == [@ EXCEPT !.steps = Append(@, "sync"),
                               !.failed = IF out = "ok" THEN @
                                          ELSE @ \cup {<<CronUser(r), "sync">>}]
            IN IF out = "auth" THEN NextUser(c) ELSE [c EXCEPT !.pc = "add"]]
  /\ UNCHANGED <<now, progress, history, review, prep,
                 budget, storeFaults, shown, attempts, created, skipped, doubled, pagesDrawn>>

\* syncPagesInternal; an AuthRequiredError ends the user's cycle
CronSync(r) ==
  /\ cron[r].pc = "sync"
  /\ \E out \in SyncOutcomes :
       /\ pageRefs' = IF out = "ok" THEN SyncedRefs(CronUser(r)) ELSE pageRefs
       /\ cron' = [cron EXCEPT ![r] =
            LET c == [@ EXCEPT !.steps = Append(@, "sync"),
                               !.failed = IF out = "ok" THEN @
                                          ELSE @ \cup {<<CronUser(r), "sync">>}]
            IN IF out = "auth" THEN NextUser(c) ELSE [c EXCEPT !.pc = "add"]]
  /\ UNCHANGED <<now, users, progress, history, review, prep,
                 budget, storeFaults, shown, attempts, created, skipped, doubled, pagesDrawn>>

\* addPagesToLearning up to its transaction
CronAdd(r) ==
  /\ cron[r].pc = "add"
  /\ \E a \in AddPlans(CronUser(r)) :
       cron' = [cron EXCEPT ![r] =
         LET c == [@ EXCEPT !.steps = Append(@, "add")] IN
         CASE a.res = "tx" -> [c EXCEPT !.pc = "tx", !.plan = a.plan]
           [] a.res = "nil" -> [c EXCEPT !.pc = "reset"]
           [] a.res = "err" ->
                NextUser([c EXCEPT !.failed = @ \cup {<<CronUser(r), "add">>}])]
  /\ UNCHANGED <<now, users, progress, pageRefs, history, review, prep,
                 budget, storeFaults, shown, attempts, created, skipped, doubled, pagesDrawn>>

\* the transaction of addPagesToLearning; its error ends the user's cycle
CronTx(r) ==
  LET l == CronUser(r) IN
  /\ cron[r].pc = "tx"
  /\ \E f \in TxFailures(l, cron[r].plan) :
       /\ progress' = RunInTx(l, cron[r].plan, f)
       /\ doubled' = doubled \cup Doubled(l, cron[r].plan, f)
       /\ created' =
            IF f # 0 \/ cron[r].plan = <<>> THEN created
            ELSE [created EXCEPT ![l] =
                    Append(@, [day |-> cron[r].day, pages |-> cron[r].plan])]
       /\ cron' = [cron EXCEPT ![r] =
            IF f # 0
            THEN NextUser([@ EXCEPT !.failed =
                             @ \cup {<<l, IF f > 1 THEN "rollback" ELSE "tx">>}])
            ELSE [@ EXCEPT !.pc = "reset"]]
  /\ UNCHANGED <<now, users, pageRefs, history, review, prep,
                 budget, storeFaults, shown, attempts, skipped, pagesDrawn>>

\* ResetReviewedTodayFlag; its error is logged and the loop goes on
CronReset(r) ==
  /\ cron[r].pc = "reset"
  /\ \E fail \in Faulty :
       /\ progress' = IF fail THEN progress ELSE ResetReviewedTodayFlag(CronUser(r))
       /\ cron' = [cron EXCEPT ![r] =
            NextUser([@ EXCEPT !.steps = Append(@, "reset"),
                               !.failed = IF fail THEN @ \cup {<<CronUser(r), "reset">>}
                                          ELSE @])]
  /\ UNCHANGED <<now, users, pageRefs, history, review, prep,
                 budget, storeFaults, shown, attempts, created, skipped, doubled, pagesDrawn>>

\* checkAndPauseInactiveUsers: the query
CronPauseQuery(r) ==
  /\ cron[r].pc = "pause"
  /\ LET q == GetUsersWithoutActivityAfter(AddDate(now, -PauseDays), TRUE) IN
       cron' = [cron EXCEPT ![r] =
         [@ EXCEPT !.queue = q, !.pc = IF q = <<>> THEN "month" ELSE "pauseUser"]]
  /\ UNCHANGED <<now, users, progress, pageRefs, history, review, prep,
                 budget, storeFaults, shown, attempts, created, skipped, doubled, pagesDrawn>>

\* checkAndPauseInactiveUsers: one turn of the loop
CronPauseUser(r) ==
  LET l == Head(cron[r].queue)
      u == users[l]
      due == RepoGetDuePagesToday(l, EndOfDayUTC(u, now))
  IN
  /\ cron[r].pc = "pauseUser"
  /\ users' = IF u.configured /\ Cardinality(due) >= MaxPagesOf(u)
              THEN [users EXCEPT ![l].isPaused = TRUE] ELSE users
  /\ cron' = [cron EXCEPT ![r] =
       [@ EXCEPT !.queue = Tail(@),
                 !.pc = IF Tail(cron[r].queue) = <<>> THEN "month" ELSE "pauseUser"]]
  /\ UNCHANGED <<now, progress, pageRefs, history, review, prep,
                 budget, storeFaults, shown, attempts, created, skipped, doubled, pagesDrawn>>

\* checkAndResetIntervals: the query and the dates computed before the loop
CronResetQuery(r) ==
  /\ cron[r].pc = "month"
  /\ LET q == GetUsersWithoutActivityAfter(AddDate(now, -ResetDays), FALSE) IN
       cron' = [cron EXCEPT ![r] =
         [@ EXCEPT !.queue = q, !.today = StartOfDay(now),
                   !.pc = IF q = <<>> THEN "idle" ELSE "monthUser"]]
  /\ UNCHANGED <<now, users, progress, pageRefs, history, review, prep,
                 budget, storeFaults, shown, attempts, created, skipped, doubled, pagesDrawn>>

\* checkAndResetIntervals: one turn of the loop
CronResetUser(r) ==
  /\ cron[r].pc = "monthUser"
  /\ progress' = ResetIntervalForPagesDueInMonth(Head(cron[r].queue),
                   AddDate(cron[r].today, 1), AddDate(cron[r].today, ResetDays))
  /\ cron' = [cron EXCEPT ![r] =
       [@ EXCEPT !.queue = Tail(@),
                 !.pc = IF Tail(cron[r].queue) = <<>> THEN "idle" ELSE "monthUser"]]
  /\ UNCHANGED <<now, users, pageRefs, history, review, prep,
                 budget, storeFaults, shown, attempts, created, skipped, doubled, pagesDrawn>>


\* ------------------------------------------------------------ initial states
User(tz, maxPages, paused, lastActivity, lastCron, configured) ==
  [timezone |-> tz, maxPagesPerDay |-> maxPages, isPaused |-> paused,
   lastActivity |-> lastActivity, lastCron |-> lastCron, configured |-> configured]

Budget(t, r, c, s, o) ==
  [ticks |-> t, reviews |-> r, commands |-> c, sweeps |-> s, ops |-> o]

\* start of the learner's local day at the start of the run
Today0(tz) == StartOfTodayOrUTC(NowStart, UserTimezone(tz))

\* a learner who was active an hour ago
ActiveUser(tz, maxPages, lastCron) ==
  User(tz, maxPages, FALSE, NowStart - 1, lastCron, TRUE)

\* a learner who has been away for 40 days and was last claimed yesterday
AwayUser(tz, maxPages) ==
  User(tz, maxPages, FALSE, AddDate(NowStart, -40), NowStart - 26, TRUE)

\* a registered user who never connected a OneNote section
Unconfigured == User("", Null, FALSE, Null, Null, FALSE)

\* rows earlier days left behind for a learner in zone tz: a page added
\* yesterday and not read, a page on a ladder step that is due, a page on a
\* ladder step that is not yet due
UnreadRow(tz) == Row(0, AddDate(Today0(tz), -1), NowStart - 30, FALSE, FALSE)

DueRow(tz, interval) ==
  Row(interval, AddDate(Today0(tz), -2), AddDate(NowStart, -interval - 2), FALSE, FALSE)

FutureRow(tz, interval) ==
  Row(interval, AddDate(Today0(tz), 10), AddDate(NowStart, 10 - interval), TRUE, FALSE)

NoRows == [k \in {} |-> UnreadRow("UTC")]

OneRow(l, p, row) == [k \in {<<l, p>>} |-> row]

TwoRows(k1, row1, k2, row2) == [k \in {k1, k2} |-> IF k = k1 THEN row1 ELSE row2]

InitCommon ==
  /\ now = NowStart
  /\ pageRefs = {}
  /\ history = <<>>
  /\ cron = [r \in Replicas |-> IdleCron]
  /\ review = [l \in Learners |-> IdleReview]
  /\ prep = [l \in Learners |-> IdlePrep]
  /\ attempts = [l \in Learners |-> <<>>]
  /\ created = [l \in Learners |-> <<>>]
  /\ shown = [l \in Learners |-> NotShown]
  /\ skipped = {}
  /\ doubled = {}
  /\ pagesDrawn = [l \in Learners |-> Null]

\* no handler is in flight
Quiet ==
  /\ \A r \in Replicas : cron[r].pc = "idle"
  /\ \A l \in Learners : review[l].pc = "idle" /\ prep[l].pc = "idle"

\* ------------------------------------------------- the system, one handler
\* at a time: one replica sweeping, learners reviewing, skipping pages and
\* preparing materials
Init ==
  /\ InitCommon
  /\ budget = Budget(MaxTicks, MaxReviews, MaxCommands, MaxSweeps, MaxOps)
  /\ storeFaults = FALSE
  /\ \E u \in {ActiveUser("UTC", 3, Null), AwayUser("Europe/Moscow", 1)} :
       /\ users = [l \in Learners |-> IF l = 1 THEN u ELSE Unconfigured]
       /\ progress = TwoRows(<<1, "p1">>, UnreadRow(u.timezone), <<1, "p2">>, DueRow(u.timezone, 180))

SystemScores == {39, 40, 61, 81}

Next ==
  \/ Quiet /\ Tick
  \/ Quiet /\ \E l \in Learners, p \in Pages, g \in SystemScores : ReviewBegin(l, p, g)
  \/ \E l \in Learners : ReviewFail(l)
  \/ \E l \in Learners : ReviewCommit(l)
  \/ Quiet /\ \E l \in Learners, p \in Pages : SkipPage(l, p)
  \/ Quiet /\ \E l \in Learners : PrepSync(l)
  \/ \E l \in Learners : PrepAdd(l)
  \/ \E l \in Learners : PrepTx(l)
  \/ Quiet /\ CronStart(1)
  \/ CronClaim(1)
  \/ CronSync(1)
  \/ CronAdd(1)
  \/ CronTx(1)
  \/ CronReset(1)
  \/ CronPauseQuery(1)
  \/ CronPauseUser(1)
  \/ CronResetQuery(1)
  \/ CronResetUser(1)

Spec == Init /\ [][Next]_vars

\* ------------------------------------------- review submissions on their own
\* one learner in any stored timezone with one page in any progression state
InitLadder ==
  /\ InitCommon
  /\ budget = Budget(MaxTicks, MaxReviews + 1, 0, 0, MaxOps)
  /\ storeFaults = FALSE
  /\ \E tz \in TimeZones :
       /\ users = [l \in Learners |->
                     IF l = 1 THEN ActiveUser(tz, Null, Null) ELSE Unconfigured]
       /\ progress \in
            {OneRow(1, "p1", UnreadRow(tz))} \cup
            {OneRow(1, "p1", DueRow(tz, defaultIntervals[i])) : i \in 1..Len(defaultIntervals)}

NextLadder ==
  \/ Tick
  \/ \E l \in Learners, p \in Pages, g \in Scores : ReviewBegin(l, p, g)
  \/ \E l \in Learners : ReviewFail(l)
  \/ \E l \in Learners : ReviewCommit(l)

SpecLadder == InitLadder /\ [][NextLadder]_vars

\* --------------------------------------------------- the hourly sweep alone
\* one replica; learner 1 in any stored timezone, with any capacity setting,
\* claimed never, two hours ago or yesterday; learner 2 away
InitCron ==
  /\ InitCommon
  /\ budget = Budget(MaxTicks + 1, 0, 0, MaxSweeps + 1, MaxOps)
  /\ storeFaults = FALSE
  /\ \E tz \in TimeZones, mp \in {Null, 1, 3}, lc \in {Null, NowStart - 2, NowStart - 26} :
       /\ users = [l \in Learners |->
                     IF l = 1 THEN ActiveUser(tz, mp, lc) ELSE AwayUser("Europe/Moscow", 1)]
       /\ progress \in
            { NoRows,
              TwoRows(<<1, "p1">>, UnreadRow(tz), <<2, "p1">>, DueRow("Europe/Moscow", 7)) }

NextCron ==
  \/ Tick
  \/ CronStart(1)
  \/ CronClaim(1)
  \/ CronSync(1)
  \/ CronAdd(1)
  \/ CronTx(1)
  \/ CronReset(1)
  \/ CronPauseQuery(1)
  \/ CronPauseUser(1)
  \/ CronResetQuery(1)
  \/ CronResetUser(1)

SpecCron == InitCron /\ [][NextCron]_vars

\* ------------------------------------------ two replicas sweeping at once
InitReplicas ==
  /\ InitCommon
  /\ budget = Budget(MaxTicks, 0, 0, MaxSweeps + 1, MaxOps)
  /\ storeFaults = FALSE
  /\ \E tz \in {"UTC", "Europe/Moscow"}, lc \in {Null, NowStart - 2} :
       /\ users = [l \in Learners |->
                     IF l = 1 THEN ActiveUser(tz, 3, lc) ELSE Unconfigured]
       /\ progress = NoRows

NextReplicas ==
  \/ Tick
  \/ \E r \in Replicas : CronStart(r)
  \/ \E r \in Replicas : CronClaim(r)
  \/ \E r \in Replicas : CronSync(r)
  \/ \E r \in Replicas : CronAdd(r)
  \/ \E r \in Replicas : CronTx(r)
  \/ \E r \in Replicas : CronReset(r)
  \/ \E r \in Replicas : CronPauseQuery(r)
  \/ \E r \in Replicas : CronPauseUser(r)
  \/ \E r \in Replicas : CronResetQuery(r)
  \/ \E r \in Replicas : CronResetUser(r)

SpecReplicas == InitReplicas /\ [][NextReplicas]_vars

\* ------------------------- reviews racing with the sweep of one replica
\* a learner back after 40 days with a page at the top of the ladder and a
\* page passed long ago
PassedRow(tz) ==
  [DueRow(tz, 180) EXCEPT !.passed = TRUE]

InitRace ==
  /\ InitCommon
  /\ budget = Budget(MaxTicks, MaxReviews + 1, 0, MaxSweeps, MaxOps)
  /\ storeFaults = FALSE
  /\ users = [l \in Learners |->
                IF l = 1 THEN AwayUser("Europe/Moscow", 1) ELSE Unconfigured]
  /\ progress = TwoRows(<<1, "p1">>, DueRow("Europe/Moscow", 180),
                        <<1, "p2">>, PassedRow("Europe/Moscow"))

NextRace ==
  \/ Tick
  \/ \E l \in Learners, p \in Pages, g \in SystemScores : ReviewBegin(l, p, g)
  \/ \E l \in Learners : ReviewFail(l)
  \/ \E l \in Learners : ReviewCommit(l)
  \/ CronStart(1)
  \/ CronClaim(1)
  \/ CronSync(1)
  \/ CronAdd(1)
  \/ CronTx(1)
  \/ CronReset(1)
  \/ CronPauseQuery(1)
  \/ CronPauseUser(1)
  \/ CronResetQuery(1)
  \/ CronResetUser(1)

SpecRace == InitRace /\ [][NextRace]_vars


\* ------------------------------------ the hourly sweep over a failing store
\* one replica; any statement of the store and any call of the catalog may
\* fail; learner 1 active with capacity 3, learner 2 away with capacity 1
InitFaults ==
  /\ InitCommon
  /\ budget = Budget(MaxTicks, 0, 0, MaxSweeps, MaxOps)
  /\ storeFaults = TRUE
  /\ \E tz \in {"UTC", "Europe/Moscow"} :
       /\ users = [l \in Learners |->
                     IF l = 1 THEN ActiveUser(tz, 3, Null) ELSE AwayUser("Europe/Moscow", 1)]
       /\ progress \in
            { NoRows,
              TwoRows(<<1, "p1">>, UnreadRow(tz), <<2, "p1">>, DueRow("Europe/Moscow", 7)) }

NextFaults ==
  \/ Tick
  \/ CronStart(1)
  \/ CronClaim(1)
  \/ CronSync(1)
  \/ CronAdd(1)
  \/ CronTx(1)
  \/ CronReset(1)
  \/ CronPauseQuery(1)
  \/ CronPauseUser(1)
  \/ CronResetQuery(1)
  \/ CronResetUser(1)

SpecFaults == InitFaults /\ [][NextFaults]_vars

\* ------------------------------------------------- the list of due pages
\* learner 1 in any stored timezone with a record for every page of the
\* section: the draft page and the page without a number are due, the others
\* are due since yesterday, due exactly at the end of today, or due an hour
\* after it; page 1 may have been reviewed today, or passed 180 days before
\* its next review date
InitDue ==
  /\ InitCommon
  /\ budget = Budget(MaxTicks, 0, MaxCommands + 1, 0, MaxOps)
  /\ storeFaults = FALSE
  /\ \E tz \in TimeZones :
       /\ users = [l \in Learners |->
                     IF l = 1 THEN ActiveUser(tz, Null, Null) ELSE Unconfigured]
       /\ \E d1, d2, d3 \in {AddDate(Today0(tz), -1), AddDate(Today0(tz), 1),
                              AddDate(Today0(tz), 1) + 1},
             st \in {"open", "reviewed", "passed"} :
            progress = [k \in {<<1, p>> : p \in Pages} |->
              CASE k[2] = "p1" ->
                     IF st = "passed" THEN Row(180, d1, AddDate(d1, -180), FALSE, TRUE)
                     ELSE Row(7, d1, NowStart - 30, st = "reviewed", FALSE)
                [] k[2] = "p2" -> Row(7, d2, NowStart - 30, FALSE, FALSE)
                [] k[2] = "p3" -> Row(7, d3, NowStart - 30, FALSE, FALSE)
                [] OTHER -> Row(7, AddDate(Today0(tz), -1), NowStart - 30, FALSE, FALSE)]

NextDue ==
  \/ Tick
  \/ \E l \in Learners : ShowDue(l)
  \/ \E l \in Learners, p \in Pages : SkipPage(l, p)

SpecDue == InitDue /\ [][NextDue]_vars

\* ===================================================================== claims
\* ------------------------------------- the sweeps over long-absent learners
\* learner 1 last active 40 days ago, exactly 30 days ago or an hour more
\* than 30 days ago, with a page that is due, a page passed long ago and a
\* page due around the thirtieth day from today, who may come back and
\* review; learner 2 active an hour ago with a page due in ten days
AbsentDays == {AddDate(NowStart, -40), AddDate(NowStart, -ResetDays),
               AddDate(NowStart, -ResetDays) - 1}

MonthEdge == {AddDate(StartOfDay(NowStart), ResetDays) - 1,
              AddDate(StartOfDay(NowStart), ResetDays),
              AddDate(StartOfDay(NowStart), ResetDays) + 1}

InitSweep ==
  /\ InitCommon
  /\ budget = Budget(MaxTicks, MaxReviews, 0, MaxSweeps, MaxOps)
  /\ storeFaults = FALSE
  /\ \E tz \in {"UTC", "Europe/Moscow"}, la \in AbsentDays :
       users = [l \in Learners |->
                  IF l = 1 THEN User(tz, 1, FALSE, la, NowStart - 26, TRUE)
                  ELSE ActiveUser("UTC", 3, Null)]
  /\ \E edge \in MonthEdge :
       progress =
         [k \in {<<1, "p1">>, <<1, "p2">>, <<1, "p3">>, <<2, "p1">>} |->
            IF k = <<1, "p1">> THEN DueRow(users[1].timezone, 7)
            ELSE IF k = <<1, "p2">> THEN PassedRow(users[1].timezone)
            ELSE IF k = <<1, "p3">>
              THEN Row(90, edge, AddDate(edge, -90), FALSE, FALSE)
            ELSE FutureRow("UTC", 14)]

NextSweep ==
  \/ Quiet /\ Tick
  \/ Quiet /\ \E p \in {"p1", "p3", "p4"}, g \in {39, 81} : ReviewBegin(1, p, g)
  \/ ReviewFail(1)
  \/ ReviewCommit(1)
  \/ Quiet /\ CronStart(1)
  \/ CronClaim(1)
  \/ CronSync(1)
  \/ CronAdd(1)
  \/ CronTx(1)
  \/ CronReset(1)
  \/ CronPauseQuery(1)
  \/ CronPauseUser(1)
  \/ CronResetQuery(1)
  \/ CronResetUser(1)

SpecSweep == InitSweep /\ [][NextSweep]_vars


\* ------------- PrepareMaterials racing with the sweep of one replica
\* learner 1 with any capacity setting, with no page yet or with one page
\* not read, asks for new pages while the hourly sweep is at work
InitPrep ==
  /\ InitCommon
  /\ budget = Budget(MaxTicks, 0, MaxCommands, MaxSweeps, MaxOps)
  /\ storeFaults = FALSE
  /\ \E tz \in {"UTC", "Europe/Moscow"}, mp \in {Null, 1, 3} :
       /\ users = [l \in Learners |->
                     IF l = 1 THEN ActiveUser(tz, mp, Null) ELSE Unconfigured]
       /\ progress \in {NoRows, OneRow(1, "p1", UnreadRow(tz))}

NextPrep ==
  \/ Tick
  \/ \E l \in Learners : PrepSync(l)
  \/ \E l \in Learners : PrepAdd(l)
  \/ \E l \in Learners : PrepTx(l)
  \/ CronStart(1)
  \/ CronClaim(1)
  \/ CronSync(1)
  \/ CronAdd(1)
  \/ CronTx(1)
  \/ CronReset(1)
  \/ CronPauseQuery(1)
  \/ CronPauseUser(1)
  \/ CronResetQuery(1)
  \/ CronResetUser(1)

SpecPrep == InitPrep /\ [][NextPrep]_vars

\* ------------------------------------ the capacity-to-count mapping alone
\* both learners with any stored capacity, or none
Capacities == 0..MaxCapacity \cup {Null}

\* pagesToAdd := srs.CalculatePagesToAdd(maxPagesPerDay) of addPagesToLearning
DrawPagesToAdd(l) ==
  /\ budget.commands > 0
  /\ budget' = [budget EXCEPT !.commands = @ - 1]
  /\ \E n \in CalculatePagesToAdd(MaxPagesOf(users[l])) :
       pagesDrawn' = [pagesDrawn EXCEPT ![l] = n]
  /\ UNCHANGED <<now, users, progress, pageRefs, history, cron, review, prep,
                 storeFaults, shown, attempts, created, skipped, doubled>>

InitPages ==
  /\ InitCommon
  /\ budget = Budget(0, 0, MaxCommands + 1, 0, 0)
  /\ storeFaults = FALSE
  /\ progress = NoRows
  /\ \E c1, c2 \in Capacities :
       users = [l \in Learners |->
                  ActiveUser("UTC", IF l = 1 THEN c1 ELSE c2, Null)]

NextPages == \E l \in Learners : DrawPagesToAdd(l)

SpecPages == InitPages /\ [][NextPages]_vars

\* ---------------- replenishment over records of pages that went out of sight
\* learner 1 with any capacity setting keeps due records of pages whose
\* titles were changed after they were added: the draft page, the page
\* without a number, and maybe page 1 not read; PrepareMaterials and the
\* hourly sweep of one replica; learner 2 away
InitShelf ==
  /\ InitCommon
  /\ budget = Budget(MaxTicks, 0, MaxCommands, MaxSweeps, MaxOps)
  /\ storeFaults = FALSE
  /\ \E tz \in {"UTC", "Europe/Moscow"}, mp \in {Null, 1, 3},
        tracked \in {{"p4"}, {"p4", "p5"}, {"p1", "p4", "p5"}} :
       /\ users = [l \in Learners |->
                     IF l = 1 THEN ActiveUser(tz, mp, Null) ELSE AwayUser("Europe/Moscow", 1)]
       /\ progress = [k \in {<<1, p>> : p \in tracked} \cup {<<2, "p1">>} |->
                        IF k[1] = 2 THEN DueRow("Europe/Moscow", 7)
                        ELSE IF k[2] = "p1" THEN UnreadRow(tz)
                        ELSE DueRow(tz, 7)]

NextShelf ==
  \/ Tick
  \/ \E l \in Learners : PrepSync(l)
  \/ \E l \in Learners : PrepAdd(l)
  \/ \E l \in Learners : PrepTx(l)
  \/ CronStart(1)
  \/ CronClaim(1)
  \/ CronSync(1)
  \/ CronAdd(1)
  \/ CronTx(1)
  \/ CronReset(1)
  \/ CronPauseQuery(1)
  \/ CronPauseUser(1)
  \/ CronResetQuery(1)
  \/ CronResetUser(1)

SpecShelf == InitShelf /\ [][NextShelf]_vars

\* ------------------- two replicas sweeping around a learner's local midnight
\* learner 1 away in Moscow, three hours before local midnight, with a due
\* page that fills the capacity and a page reviewed today that is due in ten
\* days; learner 2 active without records
InitOverlap ==
  /\ InitCommon
  /\ budget = Budget(MaxTicks, 0, 0, MaxSweeps + 1, MaxOps)
  /\ storeFaults = FALSE
  /\ \E mp \in {1, 3} :
       users = [l \in Learners |->
                  IF l = 1 THEN AwayUser("Europe/Moscow", mp) ELSE ActiveUser("UTC", 3, Null)]
  /\ progress = TwoRows(<<1, "p1">>, DueRow("Europe/Moscow", 7),
                        <<1, "p2">>, FutureRow("Europe/Moscow", 14))

SpecOverlap == InitOverlap /\ [][NextReplicas]_vars

\* ----------------------------- the sweep hour after hour over an away learner
\* learner 1 away for 40 days, in UTC or in Moscow three hours before local
\* midnight, with a page that is due and a page due in ten days; learner 2
\* active without records; two sweeps, each within its hour, and the clock
\* passing Moscow midnight and then UTC midnight
InitHourly ==
  /\ InitCommon
  /\ budget = Budget(MaxTicks + 1, 0, 0, MaxSweeps + 1, MaxOps)
  /\ storeFaults = FALSE
  /\ \E tz \in {"UTC", "Europe/Moscow"}, mp \in {1, 3} :
       /\ users = [l \in Learners |->
                     IF l = 1 THEN AwayUser(tz, mp) ELSE ActiveUser("UTC", 3, Null)]
       /\ progress = TwoRows(<<1, "p1">>, DueRow(tz, 7), <<1, "p2">>, FutureRow(tz, 14))

NextHourly ==
  \/ Quiet /\ Tick
  \/ Quiet /\ CronStart(1)
  \/ CronClaim(1)
  \/ CronSync(1)
  \/ CronAdd(1)
  \/ CronTx(1)
  \/ CronReset(1)
  \/ CronPauseQuery(1)
  \/ CronPauseUser(1)
  \/ CronResetQuery(1)
  \/ CronResetUser(1)

SpecHourly == InitHourly /\ [][NextHourly]_vars

\* C1: a second or later daily cycle for the same learner on the same local
\* day is a no-op: its claim attempt is refused, it changes no row of the
\* store, and the replenishment of the sweeps creates records at most once
\* per learner and day.
C1_DailyCycleIdempotent ==
  [][\A l \in Learners :
       /\ (Len(attempts'[l]) > Len(attempts[l])
           /\ \E i \in DOMAIN attempts[l] :
                attempts[l][i].day = attempts'[l][Len(attempts'[l])].day)
          => /\ ~attempts'[l][Len(attempts'[l])].processed
             /\ store' = store
             /\ \A r \in Replicas : cron'[r].pc \notin {"sync", "add", "tx", "reset"}
       /\ (/\ Len(attempts'[l]) > Len(attempts[l])
           /\ users[l].lastCron # Null
           /\ LET off == IF users[l].timezone = "Europe/Moscow" THEN 3 ELSE 0
              IN (users[l].lastCron + off) \div 24 = (now + off) \div 24)
          => /\ ~attempts'[l][Len(attempts'[l])].processed
             /\ store' = store
       /\ Len(created'[l]) > Len(created[l])
          => \A i \in DOMAIN created[l] :
               created[l][i].day # created'[l][Len(created'[l])].day
    ]_vars

\* a learner whose first cycle of a day created records and whose second
\* cycle of that day was refused
C1_Witness ==
  \E l \in Learners : \E i, j \in DOMAIN attempts[l] :
    /\ i < j
    /\ attempts[l][i].day = attempts[l][j].day
    /\ attempts[l][i].processed /\ ~attempts[l][j].processed
    /\ \E k \in DOMAIN created[l] : created[l][k].day = attempts[l][i].day

\* C2: when several sweeps run concurrently, at most one of them claims a
\* given learner on a given day, and no two of them are inside the daily
\* cycle of the same learner for the same day.
C2_OneClaimPerDay ==
  /\ \A l \in Learners : \A i, j \in DOMAIN attempts[l] :
       (i < j /\ attempts[l][i].processed /\ attempts[l][j].processed)
         => attempts[l][i].day # attempts[l][j].day
  /\ \A r1, r2 \in Replicas :
       (/\ r1 # r2
        /\ cron[r1].pc \in {"sync", "add", "tx", "reset"}
        /\ cron[r2].pc \in {"sync", "add", "tx", "reset"}
        /\ cron[r1].idx = cron[r2].idx)
         => cron[r1].day # cron[r2].day

\* one sweep is inside the learner's cycle while the other sweep, running at
\* the same time, has been refused the same learner and day
C2_Witness ==
  \E r1, r2 \in Replicas :
    /\ r1 # r2
    /\ cron[r1].pc \in {"sync", "add", "tx", "reset"}
    /\ cron[r2].pc \notin {"idle", "claim"} \/ (cron[r2].pc = "claim" /\ cron[r2].idx > cron[r1].idx)
    /\ \E i, j \in DOMAIN attempts[CronUser(r1)] :
         /\ attempts[CronUser(r1)][i].day = cron[r1].day
         /\ attempts[CronUser(r1)][j].day = cron[r1].day
         /\ attempts[CronUser(r1)][i].processed
         /\ ~attempts[CronUser(r1)][j].processed


\* C9: within a daily cycle whose claim succeeded the steps run in the order
\* catalog refresh, reset of reviewedToday, replenishment: whenever the
\* replenishment of a cycle has run, the reset of that cycle has run before
\* it, and the catalog refresh before the reset.
C9_ResetBeforeReplenish ==
  \A r \in Replicas : \A i \in DOMAIN cron[r].steps :
    cron[r].steps[i] = "add"
      => \E j \in 1..(i - 1) :
           /\ cron[r].steps[j] = "reset"
           /\ \E k \in 1..(j - 1) : cron[r].steps[k] = "sync"

C3_ForgotAlwaysStepOne ==
  [][\A l \in Learners :
       (/\ review[l].pc = "write" /\ review'[l].pc = "idle"
        /\ <<l, review[l].page>> \in DOMAIN progress
        /\ review[l].grade < 40)
         => progress'[<<l, review[l].page>>].interval = 1
    ]_vars

\* C3, as the code has it: from every ladder step a review graded forgot
\* leaves the record on Step(1); from ReadingMode it leaves the record in
\* ReadingMode.
C3_ForgotFromLadderStepOne ==
  [][\A l \in Learners :
       (/\ review[l].pc = "write" /\ review'[l].pc = "idle"
        /\ <<l, review[l].page>> \in DOMAIN progress
        /\ review[l].grade < 40)
         => progress'[<<l, review[l].page>>].interval =
              IF progress[<<l, review[l].page>>].interval
                   \in {1, 3, 7, 14, 30, 90, 180}
              THEN 1 ELSE 0
    ]_vars

\* a page that a first review moved up the ladder, to Step(3) or higher, and
\* that a second review graded forgot has put on Step(1)
C3_Witness ==
  /\ Len(history) = 2
  /\ history[1].mode = "standard" /\ history[1].score > 60
  /\ history[2].mode = "standard" /\ history[2].score < 40
  /\ history[2].page = history[1].page /\ history[2].user = history[1].user
  /\ progress[<<history[2].user, history[2].page>>].interval = 1

\* C4: from every ladder step but the last a review graded normal or easy
\* (a score above 60) moves the record to the next higher step; at Step(180)
\* it keeps Step(180) and sets passed.
C4_NormalEasyAdvance ==
  [][\A l \in Learners :
       LET k == <<l, review[l].page>> IN
       (/\ review[l].pc = "write" /\ review'[l].pc = "idle"
        /\ k \in DOMAIN progress
        /\ review[l].grade > 60
        /\ progress[k].interval # 0)
         => /\ progress'[k].interval =
                 CASE progress[k].interval = 1 -> 3
                   [] progress[k].interval = 3 -> 7
                   [] progress[k].interval = 7 -> 14
                   [] progress[k].interval = 14 -> 30
                   [] progress[k].interval = 30 -> 90
                   [] progress[k].interval = 90 -> 180
                   [] progress[k].interval = 180 -> 180
            /\ progress[k].interval = 180 => progress'[k].passed
    ]_vars

\* a page on Step(180) that a review graded normal (not easy) has marked passed
C4_Witness ==
  /\ history # <<>>
  /\ history[Len(history)].mode = "standard"
  /\ history[Len(history)].score > 60 /\ history[Len(history)].score <= 80
  /\ progress[<<history[Len(history)].user, history[Len(history)].page>>].passed
  /\ progress[<<history[Len(history)].user, history[Len(history)].page>>].interval = 180

\* C5: from every ladder step but the first a review graded hard (a score
\* from 40 to 60) moves the record to the next lower step; at Step(1) it
\* keeps Step(1).
C5_HardRetreats ==
  [][\A l \in Learners :
       LET k == <<l, review[l].page>> IN
       (/\ review[l].pc = "write" /\ review'[l].pc = "idle"
        /\ k \in DOMAIN progress
        /\ review[l].grade >= 40 /\ review[l].grade <= 60
        /\ progress[k].interval # 0)
         => progress'[k].interval =
              CASE progress[k].interval = 1 -> 1
                [] progress[k].interval = 3 -> 1
                [] progress[k].interval = 7 -> 3
                [] progress[k].interval = 14 -> 7
                [] progress[k].interval = 30 -> 14
                [] progress[k].interval = 90 -> 30
                [] progress[k].interval = 180 -> 90
    ]_vars

\* a page that two reviews graded hard in a row have moved down to a step
\* between Step(3) and Step(30): it started at Step(14) or higher
C5_Witness ==
  /\ Len(history) = 2
  /\ \A i \in 1..2 : /\ history[i].mode = "standard"
                     /\ history[i].score >= 40 /\ history[i].score <= 60
                     /\ history[i].page = "p1" /\ history[i].user = 1
  /\ progress[<<1, "p1">>].interval \in {3, 7, 14, 30}

\* C6: a review of a record in ReadingMode graded normal or easy moves it to
\* Step(1), graded hard or forgot leaves it in ReadingMode; either way the next
\* review date is the start of the learner's next local day (the day of the
\* universal zone when the stored zone cannot be resolved).
C6_ReadingModeReview ==
  [][\A l \in Learners :
       LET k == <<l, review[l].page>>
           off == IF users[l].timezone = "Europe/Moscow" THEN 3 ELSE 0
       IN
       (/\ review[l].pc = "write" /\ review'[l].pc = "idle"
        /\ k \in DOMAIN progress
        /\ progress[k].interval = 0)
         => /\ progress'[k].interval = IF review[l].grade > 60 THEN 1 ELSE 0
            /\ progress'[k].nextReview = ((now + off) \div 24 + 1) * 24 - off
    ]_vars

\* a Moscow learner's ReadingMode page that a review graded normal has put on
\* Step(1), due at the next Moscow midnight, which is not a midnight of UTC
C6_Witness ==
  /\ Len(history) = 1
  /\ history[1].mode = "reading"
  /\ history[1].score > 60 /\ history[1].score <= 80
  /\ users[history[1].user].timezone = "Europe/Moscow"
  /\ progress[<<history[1].user, history[1].page>>].interval = 1
  /\ progress[<<history[1].user, history[1].page>>].nextReview = ((now + 3) \div 24 + 1) * 24 - 3
  /\ progress[<<history[1].user, history[1].page>>].nextReview % 24 # 0

\* C7: in every reachable state the interval of every progress record is 0
\* (ReadingMode) or one of the ladder steps 1, 3, 7, 14, 30, 90, 180.
C7_IntervalInLadder ==
  \A k \in DOMAIN progress : progress[k].interval \in {0, 1, 3, 7, 14, 30, 90, 180}

\* a review has been recorded and a daily cycle has created records
C7_Witness ==
  /\ history # <<>>
  /\ \E l \in Learners : created[l] # <<>>
  /\ \E k \in DOMAIN progress : progress[k].interval = 0
  /\ \E k \in DOMAIN progress : progress[k].interval \notin {0, 180}

\* C8: in every reachable state, however review submissions and the reset
\* sweep interleave, a progress record with passed set is on Step(180).
C8_PassedOnLastStep ==
  \A k \in DOMAIN progress : progress[k].passed => progress[k].interval = 180

\* the reset sweep has put one page of the learner back on Step(1) (no review
\* was graded below normal), a review has been recorded, and another page of
\* the learner is passed
C8_Witness ==
  /\ history # <<>>
  /\ \A i \in DOMAIN history : history[i].score > 60
  /\ \E r \in Replicas : cron[r].pc = "idle" /\ budget.sweeps < MaxSweeps
  /\ \E l \in Learners, p, q \in Pages :
       /\ <<l, p>> \in DOMAIN progress /\ <<l, q>> \in DOMAIN progress
       /\ progress[<<l, p>>].passed /\ progress[<<l, p>>].interval = 180
       /\ progress[<<l, q>>].interval = 1 /\ ~progress[<<l, q>>].passed


C12_CreationAllOrNothing ==
  [][/\ \A r \in Replicas :
          LET l == CronUser(r)
              new == DOMAIN progress' \ DOMAIN progress
              selected == {<<l, cron[r].plan[i]>> : i \in 1..Len(cron[r].plan)}
          IN (cron[r].pc = "tx" /\ cron'[r] # cron[r])
               => /\ new = {} \/ new = selected
                  /\ \A key \in DOMAIN progress :
                       key \in DOMAIN progress' /\ progress'[key] = progress[key]
                  /\ cron'[r].pc # "reset"
                       => /\ progress' = progress /\ created' = created
                          /\ selected \cap DOMAIN progress' = {}
     /\ \A l \in Learners :
          LET new == DOMAIN progress' \ DOMAIN progress
              selected == {<<l, prep[l].plan[i]>> : i \in 1..Len(prep[l].plan)}
          IN (prep[l].pc = "tx" /\ prep'[l] # prep[l])
               => /\ new = {} \/ new = selected
                  /\ \A key \in DOMAIN progress :
                       key \in DOMAIN progress' /\ progress'[key] = progress[key]
    ]_vars

\* a transaction of the sweep failed after its first CreateProgress had
\* succeeded, and none of the learner's eligible pages has a record
C12_Witness ==
  \E r \in Replicas, l \in Learners :
    /\ <<l, "rollback">> \in cron[r].failed
    /\ \A p \in {"p1", "p2", "p3"} : <<l, p>> \notin DOMAIN progress


\* C13: when the catalog refresh of a learner's daily cycle has failed, for
\* whatever cause, the cycle does not end before both the replenishment and
\* the reset of reviewedToday have been run for that learner.
C13_RefreshFailureKeepsCycle ==
  [][\A r \in Replicas :
       (/\ cron[r].pc \in {"sync", "add", "tx", "reset"}
        /\ cron'[r].pc \notin {"sync", "add", "tx", "reset"}
        /\ <<CronUser(r), "sync">> \in cron'[r].failed)
         => /\ \E i \in DOMAIN cron'[r].steps : cron'[r].steps[i] = "add"
            /\ \E i \in DOMAIN cron'[r].steps : cron'[r].steps[i] = "reset"
    ]_vars


\* C14: in a sweep over several learners no failure of a step (claim,
\* catalog refresh, replenishment, reset) for one learner ends the loop: a
\* step of the loop either stays with its learner, or moves on to the claim
\* attempt of the next learner, or, after the last learner only, leaves the
\* loop; and a learner whose claim succeeds has the cycle started.
C14_FailureDoesNotStopSweep ==
  [][\A r \in Replicas :
       (cron[r].pc \in {"claim", "sync", "add", "tx", "reset"} /\ cron'[r] # cron[r])
         => /\ \/ /\ cron'[r].pc \in {"sync", "add", "tx", "reset"}
                  /\ cron'[r].idx = cron[r].idx
               \/ /\ cron'[r].pc = "claim"
                  /\ cron[r].idx < Cardinality(Learners)
                  /\ cron'[r].idx = cron[r].idx + 1
               \/ /\ cron'[r].pc = "pause"
                  /\ cron[r].idx = Cardinality(Learners)
            /\ \A l \in Learners :
                 (/\ Len(attempts'[l]) > Len(attempts[l])
                  /\ attempts'[l][Len(attempts'[l])].processed)
                   => (cron'[r].pc = "sync" /\ UserList[cron'[r].idx] = l)
    ]_vars

\* a sweep in which a step of learner 1 failed and ended that learner's
\* cycle, and in which learner 2 was then claimed and taken through the
\* replenishment and the reset
C14_Witness ==
  \E r \in Replicas :
    /\ \E s \in {"claim", "sync", "add", "tx", "rollback"} : <<1, s>> \in cron[r].failed
    /\ \A s \in {"claim", "sync", "add", "tx", "rollback", "reset"} :
         <<2, s>> \notin cron[r].failed
    /\ cron[r].pc = "pause"
    /\ cron[r].steps = <<"sync", "add", "reset">>
    /\ \E i \in DOMAIN attempts[2] : attempts[2][i].processed /\ attempts[2][i].day = cron[r].day


C16_DueListOrder ==
  [][\A l \in Learners :
       LET ordinal == [p \in {"p1", "p2", "p3"} |->
                         CASE p = "p1" -> 1 [] p = "p2" -> 12 [] p = "p3" -> 12]
           list == shown'[l].list
       IN (shown'[l] # shown[l] /\ shown'[l].res = "ok")
            => \A i, j \in DOMAIN list :
                 i < j => /\ ordinal[list[i]] <= ordinal[list[j]]
                          /\ ordinal[list[i]] = ordinal[list[j]]
                               => progress[<<l, list[i]>>].nextReview
                                    <= progress[<<l, list[j]>>].nextReview
    ]_vars

\* the learner was shown three pages: page 1, then the two pages numbered 12
\* with the one due earlier first, against the order of their page ids
C16_Witness ==
  /\ shown[1].res = "ok"
  /\ shown[1].list = <<"p1", "p3", "p2">>
  /\ <<1, "p2">> \in DOMAIN progress /\ <<1, "p3">> \in DOMAIN progress
  /\ progress[<<1, "p3">>].nextReview < progress[<<1, "p2">>].nextReview


C18_ResetSweepExact ==
  [][\A r \in Replicas :
       (cron[r].pc \in {"month", "monthUser"} /\ cron'[r] # cron[r])
         => LET serverToday == (now \div 24) * 24
                inactive(l) == /\ users[l].lastActivity # Null
                               /\ users[l].lastActivity < now - 30 * 24
                collapsed(rows, l) ==
                  [k \in DOMAIN rows |->
                     IF /\ k[1] = l
                        /\ ~rows[k].passed
                        /\ rows[k].nextReview <= serverToday + 30 * 24
                     THEN [rows[k] EXCEPT !.interval = 1,
                                          !.nextReview = serverToday + 24]
                     ELSE rows[k]]
            IN /\ \/ progress' = progress
                  \/ \E l \in Learners : inactive(l) /\ progress' = collapsed(progress, l)
               /\ cron'[r].pc = "idle"
                    => \A l \in Learners :
                         inactive(l) => collapsed(progress', l) = progress'
    ]_vars

\* the reset sweep has ended for a learner in Moscow absent for 40 days: the
\* due page is at interval 1 and due at midnight UTC, the passed page and the
\* page due one hour after the thirtieth day are as they were, and so is the
\* record of the active learner
C18_Witness ==
  /\ cron[1].pc = "idle" /\ cron[1].steps # <<>>
  /\ users[1].timezone = "Europe/Moscow"
  /\ users[1].lastActivity = AddDate(NowStart, -40)
  /\ progress[<<1, "p1">>].interval = 1
  /\ progress[<<1, "p1">>].nextReview = AddDate(StartOfDay(now), 1)
  /\ progress[<<1, "p2">>] = PassedRow("Europe/Moscow")
  /\ progress[<<1, "p3">>].interval = 90
  /\ progress[<<1, "p3">>].nextReview = AddDate(StartOfDay(now), ResetDays) + 1
  /\ progress[<<2, "p1">>] = FutureRow("UTC", 14)


C20_ReviewNotFound ==
  [][\A l \in Learners :
       /\ (review[l].pc = "idle" /\ review'[l].pc = "write")
            => <<l, review'[l].page>> \in DOMAIN progress
       /\ (review[l].pc = "idle" /\ review'[l].pc # "idle")
            => review'[l].pc \in {"write", "notfound"}
       /\ (review'[l] # review[l] /\ "notfound" \in {review[l].pc, review'[l].pc})
            => /\ progress' = progress
               /\ history' = history
               /\ users' = users
    ]_vars

\* submissions were made, all for pages without a record, and have returned:
\* the learner's only record, the history and the last activity are as at the
\* start
C20_Witness ==
  /\ \A l \in Learners : review[l].pc = "idle"
  /\ budget.reviews < MaxReviews + 1
  /\ history = <<>>
  /\ DOMAIN progress = {<<1, "p1">>}
  /\ progress[<<1, "p1">>].lastReview < NowStart
  /\ users[1].lastActivity = NowStart - 1


C22_HistoryOnlyGrows ==
  [][/\ Len(history') >= Len(history)
     /\ SubSeq(history', 1, Len(history)) = history]_vars


\* C23: a pair that SkipPage was called for has no progress record, in the
\* state after the skip and in every later state.
C23_SkippedStaysOut ==
  \A k \in skipped : k \notin DOMAIN progress


\* C24: no CreateProgress ever succeeds for a pair that has a record, so no
\* pair has two records, also when the replenishment of the daily cycle and
\* the replenishment of PrepareMaterials for the same learner interleave.
C24_OneRecordPerPair ==
  doubled = {}

\* the two replenishments of learner 1 chose the same page from reads made
\* before either wrote; PrepareMaterials committed first and the transaction
\* of the daily cycle failed on the existing pair
C24_Witness ==
  /\ ~storeFaults
  /\ <<1, "tx">> \in cron[1].failed
  /\ prep[1].pc = "idle"
  /\ \E p \in Pages : <<1, p>> \in DOMAIN progress /\ progress[<<1, p>>].lastReview = now


\* C25: when the loop of the daily sweep is at a configured, unpaused learner
\* whose stored timezone cannot be resolved, it attempts the claim for that
\* learner, with the start of the UTC day, and the learner whose last claim
\* is absent or older than that start is claimed.
C25_InvalidZoneStillClaimed ==
  [][\A r \in Replicas :
       LET l == UserList[cron[r].idx] IN
       (/\ cron[r].pc = "claim" /\ cron'[r] # cron[r]
        /\ users[l].configured /\ ~users[l].isPaused
        /\ users[l].timezone \notin {"", "UTC", "Europe/Moscow"})
         => /\ Len(attempts'[l]) = Len(attempts[l]) + 1
            /\ attempts'[l][Len(attempts'[l])].day = (now \div 24) * 24
            /\ (users[l].lastCron = Null \/ users[l].lastCron < (now \div 24) * 24)
                 => users'[l].lastCron = now
    ]_vars


\* C26: an answer of GetDuePagesToday to a configured learner whose stored
\* timezone cannot be resolved is not an error and lists the pages due up to
\* the start of the UTC day plus one day.
C26_InvalidZoneDueList ==
  [][\A l \in Learners :
       LET dueBoundary == (now \div 24) * 24 + 24
           expected == {p \in {"p1", "p2", "p3"} :
                          /\ <<l, p>> \in DOMAIN progress
                          /\ progress[<<l, p>>].nextReview <= dueBoundary
                          /\ ~progress[<<l, p>>].reviewedToday}
       IN (/\ shown'[l] # shown[l]
           /\ users[l].configured
           /\ users[l].timezone \notin {"", "UTC", "Europe/Moscow"})
            => /\ shown'[l].res = "ok"
               /\ {shown'[l].list[i] : i \in DOMAIN shown'[l].list} = expected
    ]_vars


\* C27: when a review of a record on a ladder step completes, the record's
\* next review date is the start of the learner's local day (the UTC day for
\* a learner without a resolvable timezone) plus as many days as the step the
\* record is on after the review.
C27_NextDueFromLocalDay ==
  [][\A l \in Learners :
       LET k == <<l, review[l].page>>
           off == IF users[l].timezone = "Europe/Moscow" THEN 3 ELSE 0
           startOfLocalDay == ((now + off) \div 24) * 24 - off
       IN (/\ review[l].pc = "write" /\ review'[l].pc = "idle"
           /\ k \in DOMAIN progress
           /\ progress[k].interval # 0)
            => /\ progress'[k].interval \in {1, 3, 7, 14, 30, 90, 180}
               /\ progress'[k].nextReview = startOfLocalDay + 24 * progress'[k].interval
    ]_vars

\* a Moscow learner's page on Step(7) was graded easy: it is on Step(14) and
\* due 14 days after the learner's local midnight, which is not a UTC midnight
C27_Witness ==
  /\ Len(history) = 1
  /\ history[1].score = 81 /\ history[1].mode = "standard"
  /\ users[history[1].user].timezone = "Europe/Moscow"
  /\ progress[<<history[1].user, history[1].page>>].lastReview = now
  /\ progress[<<history[1].user, history[1].page>>].interval = 14
  /\ progress[<<history[1].user, history[1].page>>].nextReview
       = ((now + 3) \div 24) * 24 - 3 + 14 * 24


\* C28: the number CalculatePagesToAdd returned for a learner is 1 when the
\* capacity is 0, 1 or 2 (or not set, which stands for 2), 1 or 2 when it is
\* 3, 2 when it is 4, and the capacity halved and rounded down when it is
\* larger.
C28_PagesToAdd ==
  \A l \in Learners :
    LET capacity == IF users[l].maxPagesPerDay = Null THEN 2
                    ELSE users[l].maxPagesPerDay
        half == CHOOSE h \in 0..capacity : 2 * h <= capacity /\ capacity < 2 * h + 2
    IN pagesDrawn[l] # Null
         => /\ capacity \in {0, 1, 2} => pagesDrawn[l] = 1
            /\ capacity = 3 => pagesDrawn[l] \in {1, 2}
            /\ capacity = 4 => pagesDrawn[l] = 2
            /\ capacity > 4 => pagesDrawn[l] = half

\* two learners of capacity 3 drew 1 and 2
C28_Witness ==
  /\ users[1].maxPagesPerDay = 3 /\ users[2].maxPagesPerDay = 3
  /\ pagesDrawn[1] = 1 /\ pagesDrawn[2] = 2


\* C29: no answer of GetDuePagesToday lists a page whose progress record is
\* passed.
C29_PassedNeverDue ==
  [][\A l \in Learners :
       (shown'[l] # shown[l] /\ shown'[l].res = "ok")
         => \A i \in DOMAIN shown'[l].list :
              ~progress[<<l, shown'[l].list[i]>>].passed
    ]_vars


\* C30: a claim attempt for a learner succeeds exactly when the stored time
\* of the last claim is absent or strictly earlier than the start of the
\* learner's current local day; a successful attempt sets the stored time to
\* the present and changes nothing else of the learner; a refused attempt
\* leaves the learner as it is and is not recorded as a failure of the sweep.
C30_ClaimExact ==
  [][\A l \in Learners :
       LET off == IF users[l].timezone = "Europe/Moscow" THEN 3 ELSE 0
           startOfLocalDay == ((now + off) \div 24) * 24 - off
           due == users[l].lastCron = Null \/ users[l].lastCron < startOfLocalDay
       IN Len(attempts'[l]) > Len(attempts[l])
            => /\ attempts'[l][Len(attempts'[l])].processed = due
               /\ due => users'[l] = [users[l] EXCEPT !.lastCron = now]
               /\ ~due => /\ users'[l] = users[l]
                          /\ \A r \in Replicas : <<l, "claim">> \notin cron'[r].failed
    ]_vars

\* a Moscow learner was claimed at the very start of the local day and, the
\* stored time being equal to that start, refused in the next sweep
C30_Witness ==
  \E l \in Learners :
    /\ users[l].timezone = "Europe/Moscow"
    /\ Len(attempts[l]) = 2
    /\ attempts[l][1].processed /\ ~attempts[l][2].processed
    /\ users[l].lastCron = attempts[l][2].day
    /\ (users[l].lastCron + 3) % 24 = 0


\* C31: a replenishment run that starts with fewer than dailyCapacity records
\* in the learner's due set for today (next review date up to the start of
\* the local day plus one day, not reviewed today) ends with at most
\* dailyCapacity records in it, in the daily cycle and in PrepareMaterials
\* alike.
C31_ReplenishmentWithinCapacity ==
  [][\A l \in Learners :
       LET off == IF users[l].timezone = "Europe/Moscow" THEN 3 ELSE 0
           boundary == ((now + off) \div 24) * 24 - off + 24
           dueBefore == {p \in Pages : /\ <<l, p>> \in DOMAIN progress
                                       /\ progress[<<l, p>>].nextReview <= boundary
                                       /\ ~progress[<<l, p>>].reviewedToday}
           dueAfter == {p \in Pages : /\ <<l, p>> \in DOMAIN progress'
                                      /\ progress'[<<l, p>>].nextReview <= boundary
                                      /\ ~progress'[<<l, p>>].reviewedToday}
           capacity == IF users[l].maxPagesPerDay = Null THEN 2
                       ELSE users[l].maxPagesPerDay
           runEnds == \/ prep[l].pc = "tx" /\ prep'[l] # prep[l]
                      \/ \E r \in Replicas :
                           cron[r].pc = "tx" /\ CronUser(r) = l /\ cron'[r] # cron[r]
       IN (runEnds /\ Cardinality(dueBefore) < capacity)
            => Cardinality(dueAfter) <= capacity
    ]_vars


\* C32: a daily cycle whose claim succeeded does not end before the reset of
\* reviewedToday has run for its learner exactly once, whether the catalog
\* refresh or the replenishment of the cycle failed or not: when the cycle
\* ends, none of the learner's records is marked reviewed today.
C32_ClaimedDayResetsFlags ==
  [][\A r \in Replicas :
       (/\ cron[r].pc \in {"sync", "add", "tx", "reset"}
        /\ cron'[r].pc \notin {"sync", "add", "tx", "reset"})
         => /\ Cardinality({i \in DOMAIN cron'[r].steps :
                              cron'[r].steps[i] = "reset"}) = 1
            /\ \A p \in Pages :
                 <<CronUser(r), p>> \in DOMAIN progress'
                   => ~progress'[<<CronUser(r), p>>].reviewedToday
    ]_vars


\* C33: when the catalog refresh or the replenishment of a daily cycle fails
\* after the claim succeeded, the learner's stored claim time stays as the
\* claim set it, at or after the start of the claimed local day; and a claim
\* attempt of a later sweep on a local day already claimed is refused and
\* starts no cycle, so that nothing of the failed cycle is run again that day.
C33_FailedCycleStaysClaimed ==
  [][\A l \in Learners :
       /\ \A r \in Replicas :
            (/\ cron[r].pc \in {"sync", "add", "tx"} /\ CronUser(r) = l
             /\ cron'[r].failed # cron[r].failed)
              => /\ users'[l].lastCron = users[l].lastCron
                 /\ users'[l].lastCron # Null
                 /\ users'[l].lastCron >= cron[r].day
                 /\ \E i \in DOMAIN attempts[l] :
                      attempts[l][i] = [day |-> cron[r].day, processed |-> TRUE]
       /\ (/\ Len(attempts'[l]) > Len(attempts[l])
           /\ \E i \in DOMAIN attempts[l] :
                /\ attempts[l][i].processed
                /\ attempts[l][i].day = attempts'[l][Len(attempts'[l])].day)
            => /\ ~attempts'[l][Len(attempts'[l])].processed
               /\ users' = users /\ progress' = progress /\ pageRefs' = pageRefs
               /\ \A r \in Replicas :
                    cron'[r] # cron[r] => cron'[r].pc \notin {"sync", "add", "tx", "reset"}
    ]_vars

\* a learner without records was claimed, still has no record because the
\* cycle failed, and was refused by the next sweep, an hour or more later on
\* the same local day, with the claim time as the first sweep set it
C33_Witness ==
  \E l \in Learners :
    /\ Len(attempts[l]) = 2
    /\ attempts[l][1].processed /\ ~attempts[l][2].processed
    /\ attempts[l][1].day = attempts[l][2].day
    /\ users[l].lastCron # Null /\ users[l].lastCron < now
    /\ users[l].lastCron >= attempts[l][1].day
    /\ users[l].maxPagesPerDay # 1
    /\ \A p \in Pages : <<l, p>> \notin DOMAIN progress


\* C34: the capacity test of replenishment counts the due set as the list of
\* due pages shows it, without the records of draft pages and of pages
\* without a number: when a non-paused learner has fewer than dailyCapacity
\* listed due pages and the section has a numbered page without a record, the
\* replenishment of a daily cycle does not return without a transaction.
C34_CapacityTestUsesListedDue ==
  [][\A r \in Replicas :
       LET l == CronUser(r)
           off == IF users[l].timezone = "Europe/Moscow" THEN 3 ELSE 0
           boundary == ((now + off) \div 24) * 24 - off + 24
           listed == {p \in {"p1", "p2", "p3"} :
                        /\ <<l, p>> \in DOMAIN progress
                        /\ progress[<<l, p>>].nextReview <= boundary
                        /\ ~progress[<<l, p>>].reviewedToday}
           untracked == {p \in {"p1", "p2", "p3"} : <<l, p>> \notin DOMAIN progress}
           capacity == IF users[l].maxPagesPerDay = Null THEN 2
                       ELSE users[l].maxPagesPerDay
       IN (/\ cron[r].pc = "add" /\ cron'[r] # cron[r]
           /\ ~users[l].isPaused
           /\ Cardinality(listed) < capacity
           /\ untracked # {})
            => \/ cron'[r].pc = "tx" /\ cron'[r].plan # <<>>
               \/ <<l, "add">> \in cron'[r].failed
    ]_vars


\* C35: while a learner is paused no record is created for the learner,
\* neither by a daily cycle nor by PrepareMaterials, and no step of the loop
\* of the hourly sweep changes the learner's stored claim time or the
\* reviewedToday flag of any of the learner's records.
C35_PausedLearnerLeftAlone ==
  [][\A l \in Learners :
       users[l].isPaused
         => /\ \A p \in Pages :
                 <<l, p>> \in DOMAIN progress' => <<l, p>> \in DOMAIN progress
            /\ (\E r \in Replicas :
                  /\ cron[r].pc \in {"claim", "sync", "add", "tx", "reset"}
                  /\ cron'[r] # cron[r])
                 => /\ users'[l].lastCron = users[l].lastCron
                    /\ \A p \in Pages :
                         <<l, p>> \in DOMAIN progress
                           => progress'[<<l, p>>].reviewedToday
                                = progress[<<l, p>>].reviewedToday
    ]_vars


\* C36: a page of which a review was recorded earlier on the current local
\* day of the learner is not in the learner's list of due pages: its record
\* is not both unreviewed today and due by the start of the next local day,
\* wherever the hourly sweep falls relative to the review.
C36_ReviewedPageGoneForTheDay ==
  \A i \in DOMAIN history :
    LET l == history[i].user
        p == history[i].page
        off == IF users[l].timezone = "Europe/Moscow" THEN 3 ELSE 0
        boundary == ((now + off) \div 24) * 24 - off + 24
    IN (/\ (history[i].date + off) \div 24 = (now + off) \div 24
        /\ users[l].timezone \in {"UTC", "Europe/Moscow", ""}
        /\ p \in {"p1", "p2", "p3"}
        /\ <<l, p>> \in DOMAIN progress)
         => ~(/\ progress[<<l, p>>].nextReview <= boundary
              /\ ~progress[<<l, p>>].reviewedToday)


\* C37: a review submission that completes leaves its learner not paused,
\* however its reads and writes interleave with the pause sweep.
C37_CompletedReviewNotPaused ==
  [][\A l \in Learners :
       (review[l].pc = "write" /\ review'[l].pc = "idle")
         => ~users'[l].isPaused
    ]_vars


\* C38: for a learner inactive for more than 30 days, in whatever timezone,
\* a record the reset sweep has put back on Step(1) is in the learner's due
\* set (next review date up to the start of the local day plus one day, not
\* reviewed today) during the whole local day after the local day of that
\* sweep, also when later sweeps have run the reset again.
C38_RolledBackDueNextDay ==
  \A l \in Learners : \A p \in Pages :
    LET off == IF users[l].timezone = "Europe/Moscow" THEN 3 ELSE 0
        boundary == ((now + off) \div 24) * 24 - off + 24
    IN (/\ attempts[l] # <<>>
        /\ users[l].lastActivity # Null
        /\ users[l].lastActivity + 30 * 24 < attempts[l][1].day
        /\ (now + off) \div 24 = (attempts[l][1].day + off) \div 24 + 1
        /\ <<l, p>> \in DOMAIN progress
        /\ progress[<<l, p>>].interval = 1
        /\ ~progress[<<l, p>>].reviewedToday)
         => progress[<<l, p>>].nextReview <= boundary


\* C39: no turn of the reset sweep moves a record forward in the order
\* ReadingMode (interval 0), Step(1), Step(3), ..., Step(180): the interval of
\* every record after the turn is at most its interval before.
C39_ResetNeverAdvances ==
  [][(\E r \in Replicas : cron[r].pc = "monthUser" /\ cron'[r] # cron[r])
       => \A k \in DOMAIN progress :
            /\ k \in DOMAIN progress'
            /\ progress'[k].interval <= progress[k].interval
    ]_vars


\* C40: repetitionCount counts the recorded reviews of a record: a record is
\* created with repetitionCount 0, every review submission that completes
\* for an existing record adds one to it, and no other step changes it.
C40_RepetitionCountCountsReviews ==
  [][\A k \in DOMAIN progress' :
       IF k \notin DOMAIN progress THEN progress'[k].repetitionCount = 0
       ELSE IF review[k[1]].pc = "write" /\ review'[k[1]].pc = "idle"
               /\ review[k[1]].page = k[2]
       THEN progress'[k].repetitionCount = progress[k].repetitionCount + 1
       ELSE progress'[k].repetitionCount = progress[k].repetitionCount
    ]_vars

====
